---- MODULE Spec2Model ----
(***************************************************************************)
(* A model of the typed row-store dataframe (src/src/dataframe, gather,    *)
(* filter, select, mutate, lib.rs): the verbs lookup / reverse_lookup,     *)
(* gather, filter, transform / select / mutate, and push / extend; and of  *)
(* the column-store prototype (src/src/dynamic/mod.rs) and the staged      *)
(* expression token (src/src/dynamic/df_token_copy.rs).                    *)
(* Each verb has its own specification; the variables of the other verbs   *)
(* stay idle in it.                                                        *)
(* A store is a sequence of rows.  rayon's parallel iterators are modelled *)
(* by their workers: every item is handled by some worker at some time, in *)
(* any order, and collect() reassembles the results by original index.     *)
(* Option<T> is modelled as a sequence: <<>> is None, <<x>> is Some(x).    *)
(***************************************************************************)
EXTENDS Integers, Sequences, FiniteSets, TLC

\* Bounds of the model: the longest self store of a lookup, a gather or a
\* transform, the longest other store of a lookup, and the longest store of a
\* filter or one grown by push and extend.
MaxSelf == 2

MaxOther == 2

MaxRows == 3

VARIABLES
    verb,         \* the method called: "lookup" (dataframe/mod.rs), "lib_lookup",
                  \* "reverse_lookup" (lib.rs), "gather", "filter"
    selfRows,     \* self.rows
    otherRows,    \* other.rows
    predicate,    \* the predicate closure the caller passed (its kind)
    constructor,  \* Option<C>: <<>> or <<"default">>
    collect,      \* gather: the Collect closure of the caller (its kind)
    update,       \* gather: the Update closure of the caller (its kind)
    cols,         \* gather: the columns $col given to the gather! macro
    gi,           \* gather: the index of `record` in self.rows (0: before the loop)
    fields,       \* gather: what the iterator collect(record.clone()) still yields
    new_records,  \* gather: the local Vec of new records
    firstHit,     \* lookup: the first position a worker reported a match at (0: none)
    cur,          \* lookup: the outer row whose closure is running (0: none)
    scanned,      \* lookup: the inner positions find_first has tested for row cur
    best,         \* lookup: find_first's best match so far for row cur (0: none)
    fin,          \* lookup: the outer rows whose closure has returned
    slot,         \* lookup: per outer row, the closure's result (an Option<New>)
    phase,        \* "run" while the workers run, "done" once collect() returned
    out,          \* the rows of the DataFrame the verb returned
    prev,         \* Option: the rows an earlier, identical call returned
    op,           \* the closure passed to transform, select or mutate (its kind)
    order,        \* the rows the workers of transform/filter finished, in that order
    clones,       \* how many times a worker called R::clone
    pending,      \* extend: what the iterator `iter` still yields
    appended,     \* every row handed to push or extend so far, in call order
    dfSelf,       \* dynamic: `self`, a frame [columns, nrow]
    dfOther,      \* dynamic: `other`
    dfCall,       \* dynamic: the method called
    dfArg,        \* dynamic: `columns`, the argument of select / select_mut
    dfPc,         \* dynamic: "call", "ck", "ck2", "apply", "ok", "err" or "panic"
    dfTodo,       \* dynamic: what the running for loop(s) will still visit
    dfResult,     \* dynamic: Option, the local `result`; returned when dfPc = "ok"
    dfSelf0,      \* dynamic: `self` as it was when the method was called
    tkOps,        \* token: the operations of the closure evaluated so far
    tkHeap,       \* token: the df values alive; tkHeap[1] is the parameter d
    tkRefs,       \* token: the operands (&df) evaluated and not yet used
    tkPc          \* token: "run", "done" or "panic"

vars == <<verb, selfRows, otherRows, predicate, constructor, collect, update, cols,
          gi, fields, new_records, firstHit, cur, scanned, best, fin, slot, phase,
          out, prev, op, order, clones, pending, appended,
          dfSelf, dfOther, dfCall, dfArg, dfPc, dfTodo, dfResult, dfSelf0,
          tkOps, tkHeap, tkRefs, tkPc>>

inputs == <<verb, selfRows, otherRows, predicate, constructor, collect, update, cols,
            op>>

workVars == <<order, clones>>

growVars == <<pending, appended>>

dynVars == <<dfSelf, dfOther, dfCall, dfArg, dfPc, dfTodo, dfResult, dfSelf0>>

tokVars == <<tkOps, tkHeap, tkRefs, tkPc>>

gatherVars == <<gi, fields, new_records>>

scanVars == <<firstHit, cur, scanned, best>>

----------------------------------------------------------------------------
\* Rows and the closures a caller passes to lookup.

\* Rows of self: {id, v}.
ARows == {[id |-> 1, v |-> 10], [id |-> 2, v |-> 20]}

\* Rows of other: {id, w}; two rows share id 2 and differ in w.
BRows == {[id |-> 2, w |-> 200], [id |-> 3, w |-> 300], [id |-> 2, w |-> 250]}

\* Every sequence over S of length at most n.
SeqUpTo(S, n) == UNION {[1..k -> S] : k \in 0..n}

\* The kinds of predicate closure P the caller may pass.
PredicateKinds == {"eq_id", "lt_id"}

\* predicate(&(s, o)): s a row of self, o a row of other.
UserPredicate(s, o) ==
    CASE predicate = "eq_id" -> s.id = o.id
      [] predicate = "lt_id" -> s.id < o.id

\* transform((s, o)): the combining function, |a,b| {id:a.id, v:a.v, w:b.w}.
UserTransform(s, o) == [id |-> s.id, v |-> s.v, w |-> o.w]

\* ctor(): the default row.
DefaultRow == [id |-> 0, v |-> 0, w |-> 0]

----------------------------------------------------------------------------
\* reverse_lookup: other.lookup(self, |s,o| p(o,s), |s,o| op(o,s), default).

\* The predicate passed on as it came, its arguments not swapped.
ReversePredicateUnflipped(s, o) == UserPredicate(s, o)

\* |s,o| p(o,s)
ReversePredicate(s, o) == UserPredicate(o, s)

\* |s,o| op(o,s)
ReverseTransform(s, o) == UserTransform(o, s)

\* The store lookup's outer par_iter runs over, and the one find_first scans.
Outer == IF verb = "reverse_lookup" THEN otherRows ELSE selfRows

Inner == IF verb = "reverse_lookup" THEN selfRows ELSE otherRows

\* The predicate and transform closures as lookup receives them.
CallPredicate(x, y) ==
    IF verb = "reverse_lookup" THEN ReversePredicate(x, y) ELSE UserPredicate(x, y)

CallTransform(x, y) ==
    IF verb = "reverse_lookup" THEN ReverseTransform(x, y) ELSE UserTransform(x, y)

----------------------------------------------------------------------------
\* find_first over other.rows.par_iter(): workers test positions in any order;
\* a match replaces the best one found so far only if it lies before it.

\* find_any: the match reported first stays, whatever its position.
FindAnyUpdate(b, j) == IF b = 0 THEN j ELSE b

\* find_first: the best match b after a worker reported a match at position j.
FindFirstUpdate(b, j) == IF b = 0 \/ j < b THEN j ELSE b

\* A worker may give up a position that lies after the best match found so far.
Full(j) == best # 0 /\ best < j

\* find_first has returned: every position was tested or given up.
ScanOver == \A j \in 1..Len(Inner) : j \in scanned \/ Full(j)

\* The closure without its `else if let Some(ref ctor)` branch.
LookupBodyNoDefault(x, b) ==
    IF b # 0 THEN <<CallTransform(x, Inner[b])>> ELSE <<>>

\* The closure of dataframe/mod.rs's filter_map: Some(transform), Some(ctor()) or None.
LookupBody(x, b) ==
    IF b # 0 THEN <<CallTransform(x, Inner[b])>>
    ELSE IF constructor # <<>> THEN <<DefaultRow>>
    ELSE <<>>

\* The closure of lib.rs's map: op(s, item) or default().
LibLookupBody(x, b) ==
    IF b # 0 THEN <<CallTransform(x, Inner[b])>> ELSE <<DefaultRow>>

RECURSIVE Concat(_, _)
\* collect(): the results of rows 1..n, in the order of the rows.
Concat(s, n) == IF n = 0 THEN <<>> ELSE Concat(s, n - 1) \o s[n]

RECURSIVE ConcatReversed(_, _)
\* The results of rows n..1: a collect that loses the order of the rows.
ConcatReversed(s, n) == IF n = 0 THEN <<>> ELSE s[n] \o ConcatReversed(s, n - 1)

\* A collect that returns the results last row first.
CollectReversed(s) == ConcatReversed(s, Len(Outer))

\* A collect that moves the default rows behind the combined ones.
CollectDefaultsLast(s) ==
    SelectSeq(Concat(s, Len(Outer)), LAMBDA r : r # DefaultRow)
        \o SelectSeq(Concat(s, Len(Outer)), LAMBDA r : r = DefaultRow)

RECURSIVE ConcatAlong(_, _)
\* The results of the rows listed in o, in the order of the list.
ConcatAlong(s, o) == IF o = <<>> THEN <<>> ELSE s[Head(o)] \o ConcatAlong(s, Tail(o))

\* A collect that appends each worker's result when the worker finishes.
CollectByCompletion(s) == ConcatAlong(s, order)

\* collect() over the results of all the rows of the outer store.
Collect(s) == Concat(s, Len(Outer))

----------------------------------------------------------------------------
\* filter: rows {id, foo, name} and the predicate closures of lib.rs's test.

FRows == [id : {1, 2}, foo : {2, 4}, name : {"name", "nrme"}]

FilterKinds == {"name_is_name", "foo_gt_3", "none"}

\* p(i): |r| r.name == "name", |r| r.foo > 3.0, |_| false.
FilterPredicate(r) ==
    CASE predicate = "name_is_name" -> r.name = "name"
      [] predicate = "foo_gt_3" -> r.foo > 3
      [] predicate = "none" -> FALSE

\* The filter with its test inverted.
FilterBodyNegated(r) == IF FilterPredicate(r) THEN <<>> ELSE <<r>>

\* .filter(|&i| p(i)).cloned(): the row's clone if p accepts it, nothing otherwise.
FilterBody(r) == IF FilterPredicate(r) THEN <<r>> ELSE <<>>

\* .cloned().filter(..): every row cloned, and the predicate run on the clones.
ClonesBeforeFilter(r) == 1

\* How many times .filter(|&i| p(i)).cloned() calls R::clone for the row r.
FilterClones(r) == IF FilterPredicate(r) THEN 1 ELSE 0

----------------------------------------------------------------------------
\* transform, select, mutate: rows {id, foo, name} and the closures a caller passes.

\* The mutations m of mutate: |r| r.foo = 2.0 * r.foo (lib.rs's test) and || {}.
MutationKinds == {"double_foo", "noop"}

\* The closures of select: |r| New { id: r.id, name: r.name }, |r| New { foo: r.foo }.
SelectionKinds == {"id_name", "foo_only"}

MapVerbs == {"transform", "select", "lib_select", "mutate"}

\* mutation(&mut r): the row r after the mutation ran on it.
Mutation(r) ==
    CASE op = "double_foo" -> [r EXCEPT !.foo = 2 * r.foo]
      [] op = "noop" -> r

\* The closure the caller hands to transform or select, applied to the row r.  A
\* mutation kind stands for the closure |mut row| { m(&mut row); row }.
UserOp(r) ==
    CASE op \in MutationKinds -> Mutation(r)
      [] op = "id_name" -> [id |-> r.id, name |-> r.name]
      [] op = "foo_only" -> [foo |-> r.foo]

\* A closure that runs the mutation on a second clone and returns the first.
MutateClosureDropped(r) == r

\* mutate's closure: |mut r| { mutation(&mut r); r }.
MutateClosure(r) == Mutation(r)

\* A select that hands transform the identity in place of the caller's closure.
SelectClosureIdentity(r) == r

\* select/mod.rs hands its closure to transform as it came.
SelectClosure(r) == UserOp(r)

\* lib.rs: |r| op(r).into(), where op returns NewRecord and the target of into() is
\* NewRecord: the reflexive `impl From<T> for T`, which returns its argument.
LibSelectClosure(r) == UserOp(r)

\* The closure transform receives, by the verb that called it.
TransformClosure(r) ==
    CASE verb = "transform" -> UserOp(r)
      [] verb = "select" -> SelectClosure(r)
      [] verb = "lib_select" -> LibSelectClosure(r)
      [] verb = "mutate" -> MutateClosure(r)

\* A transform that forgets to apply its closure to the clone.
MapBodyCloneOnly(r) == <<r>>

\* .cloned().map(transform) on one row: the closure applied to the row's clone.
MapBody(r) == <<TransformClosure(r)>>

----------------------------------------------------------------------------
\* gather: rows {id, bar, baz, key, val}, all but id Options, and the closures
\* (Collect, Update) the caller passes, by kind: "macro" is what gather! builds.

GRows == [id : {1, 2}, bar : {<<>>, <<5>>}, baz : {<<>>, <<6>>}, key : {<<>>}, val : {<<>>}]

ColumnLists == {<<"bar", "baz">>, <<"baz", "bar">>, <<"baz">>}

CollectKinds == {"macro", "present"}

UpdateKinds == {"macro", "tally"}

\* collected.0.to_string(): the String holding the characters of the &'static str.
to_string(name) == name

\* gather!: |r| vec![ $( (stringify!($col), r.$col) ),* ].into_iter()
MacroCollect(r) == [k \in 1..Len(cols) |-> <<cols[k], r[cols[k]]>>]

\* A Collect closure of the caller's own: the columns that hold a value.
PresentCollect(r) == SelectSeq(MacroCollect(r), LAMBDA pair : pair[2] # <<>>)

Collect_(r) == IF collect = "macro" THEN MacroCollect(r) ELSE PresentCollect(r)

\* The update closure without its `$( r.$col = None; )*` line.
MacroUpdateNoClear(r, cn, val) == [r EXCEPT !.key = <<cn>>, !.val = val]

\* gather!: |r,cn,val| { $( r.$col = None; )* r.$key = Some(cn); r.$val = val; }
MacroUpdate(r, cn, val) ==
    [f \in DOMAIN r |->
        CASE f = "key" -> <<cn>>
          [] f = "val" -> val
          [] f \in {cols[k] : k \in 1..Len(cols)} -> <<>>
          [] OTHER -> r[f]]

UnwrapOr0(opt) == IF opt = <<>> THEN 0 ELSE opt[1]

\* An Update closure of the caller's own: it adds the value to r.val, and names
\* the column in r.key; it clears nothing.
TallyUpdate(r, cn, val) ==
    [r EXCEPT !.key = <<cn>>, !.val = <<UnwrapOr0(r.val) + UnwrapOr0(val)>>]

Update_(r, cn, val) ==
    IF update = "macro" THEN MacroUpdate(r, cn, val) ELSE TallyUpdate(r, cn, val)

----------------------------------------------------------------------------
\* The state of each verb before it runs, and while another verb runs.

IdleScan == firstHit = 0 /\ cur = 0 /\ scanned = {} /\ best = 0

IdleGather == gi = 0 /\ fields = <<>> /\ new_records = <<>>

NoGatherInputs == collect = "none" /\ update = "none" /\ cols = <<>>

IdleGrow == pending = <<>> /\ appended = <<>>

\* No method of the column store is called: both frames are Default::default().
IdleDyn ==
    /\ dfSelf = [columns |-> <<>>, nrow |-> 0]
    /\ dfOther = [columns |-> <<>>, nrow |-> 0]
    /\ dfCall = "none"
    /\ dfArg = <<>>
    /\ dfPc = "ok"
    /\ dfTodo = <<>>
    /\ dfResult = <<>>
    /\ dfSelf0 = [columns |-> <<>>, nrow |-> 0]

\* No closure is evaluated on a token.
IdleTok == tkOps = <<>> /\ tkHeap = <<>> /\ tkRefs = <<>> /\ tkPc = "done"

\* The state right after a parallel verb was called, before any worker ran.
\* The closures of distinct outer rows share no state (each reads its row and
\* `other`, and yields its own result), so they are run one at a time, in any order;
\* the workers of one find_first scan interleave freely.
Fresh ==
    /\ IdleScan
    /\ IdleGather
    /\ fin = {}
    /\ slot = [i \in 1..Len(Outer) |-> <<>>]
    /\ phase = "run"
    /\ out = <<>>
    /\ prev = <<>>
    /\ order = <<>>
    /\ clones = 0
    /\ IdleGrow
    /\ IdleDyn
    /\ IdleTok

InitInputs ==
    /\ selfRows \in SeqUpTo(ARows, MaxSelf)
    /\ otherRows \in SeqUpTo(BRows, MaxOther)
    /\ predicate \in PredicateKinds
    /\ op = "none"
    /\ NoGatherInputs

\* dataframe/mod.rs: self.lookup(other, predicate, transform, constructor);
\* lib.rs: self.lookup(other, p, op, default).
InitLookup ==
    /\ verb \in {"lookup", "lib_lookup"}
    /\ constructor \in IF verb = "lookup" THEN {<<>>, <<"default">>} ELSE {<<"default">>}
    /\ InitInputs
    /\ Fresh

\* lib.rs: self.reverse_lookup(other, p, op, default).
InitReverse ==
    /\ verb = "reverse_lookup"
    /\ constructor = <<"default">>
    /\ InitInputs
    /\ Fresh

\* filter/mod.rs: self.filter(p).
InitFilter ==
    /\ verb = "filter"
    /\ selfRows \in SeqUpTo(FRows, MaxRows)
    /\ otherRows = <<>>
    /\ predicate \in FilterKinds
    /\ constructor = <<>>
    /\ op = "none"
    /\ NoGatherInputs
    /\ Fresh

\* self.transform(f), self.select(f), self.mutate(m), and self.filter(p) beside them.
InitMap ==
    /\ verb \in MapVerbs \cup {"filter"}
    /\ selfRows \in SeqUpTo(FRows, MaxSelf)
    /\ otherRows = <<>>
    /\ predicate \in IF verb = "filter" THEN FilterKinds ELSE {"none"}
    /\ constructor = <<>>
    /\ op \in CASE verb = "transform" -> MutationKinds \cup SelectionKinds
                [] verb \in {"select", "lib_select"} -> SelectionKinds
                [] verb = "mutate" -> MutationKinds
                [] verb = "filter" -> {"none"}
    /\ NoGatherInputs
    /\ Fresh

\* gather/mod.rs: self.gather((collect, update)).
InitGather ==
    /\ verb = "gather"
    /\ selfRows \in SeqUpTo(GRows, MaxSelf)
    /\ otherRows = <<>>
    /\ predicate = "none"
    /\ constructor = <<>>
    /\ op = "none"
    /\ collect \in CollectKinds
    /\ update \in UpdateKinds
    /\ cols \in ColumnLists
    /\ Fresh

----------------------------------------------------------------------------
\* lookup

\* A worker takes outer row i: its closure starts, and with it a find_first scan.
Begin(i) ==
    /\ verb \in {"lookup", "lib_lookup", "reverse_lookup"}
    /\ phase = "run"
    /\ cur = 0
    /\ i \in (1..Len(Outer)) \ fin
    /\ cur' = i
    /\ UNCHANGED <<inputs, workVars, growVars, dynVars, tokVars, gatherVars, firstHit, scanned, best, fin, slot, phase, out, prev>>

\* A worker evaluates predicate(&(s, p)) at position j of the scan.
Probe(j) ==
    /\ phase = "run"
    /\ cur # 0
    /\ j \in (1..Len(Inner)) \ scanned
    /\ scanned' = scanned \cup {j}
    /\ LET hit == CallPredicate(Outer[cur], Inner[j])
       IN /\ best' = IF hit THEN FindFirstUpdate(best, j) ELSE best
          /\ firstHit' = IF hit /\ firstHit = 0 THEN j ELSE firstHit
    /\ UNCHANGED <<inputs, workVars, growVars, dynVars, tokVars, gatherVars, cur, fin, slot, phase, out, prev>>

\* find_first returned: the closure produces the row's result, and its locals go.
Emit ==
    /\ phase = "run"
    /\ cur # 0
    /\ ScanOver
    /\ slot' = [slot EXCEPT ![cur] =
                  IF verb = "lookup" THEN LookupBody(Outer[cur], best)
                  ELSE LibLookupBody(Outer[cur], best)]
    /\ fin' = fin \cup {cur}
    /\ cur' = 0
    /\ scanned' = {}
    /\ best' = 0
    /\ firstHit' = 0
    /\ UNCHANGED <<inputs, workVars, growVars, dynVars, tokVars, gatherVars, phase, out, prev>>

\* Every closure returned: collect() builds the rows of the new DataFrame.
Return ==
    /\ phase = "run"
    /\ fin = 1..Len(Outer)
    /\ out' = Collect(slot)
    /\ phase' = "done"
    /\ UNCHANGED <<inputs, workVars, growVars, dynVars, tokVars, gatherVars, scanVars, fin, slot, prev>>

\* The caller keeps the result and calls lookup again on the same inputs.
CallAgain ==
    /\ verb \in {"lookup", "lib_lookup", "reverse_lookup"}
    /\ phase = "done"
    /\ prev = <<>>
    /\ prev' = <<out>>
    /\ fin' = {}
    /\ slot' = [i \in 1..Len(Outer) |-> <<>>]
    /\ phase' = "run"
    /\ out' = <<>>
    /\ UNCHANGED <<inputs, workVars, growVars, dynVars, tokVars, gatherVars, scanVars>>

NextLookup ==
    \/ \E i \in 1..Len(Outer) : Begin(i)
    \/ \E j \in 1..Len(Inner) : Probe(j)
    \/ Emit
    \/ Return
    \/ CallAgain

SpecLookup == InitLookup /\ [][NextLookup]_vars

SpecReverse == InitReverse /\ [][NextLookup]_vars

----------------------------------------------------------------------------
\* filter

\* A worker runs the filter and the clone on row i.
Test(i) ==
    /\ verb = "filter"
    /\ phase = "run"
    /\ i \in (1..Len(selfRows)) \ fin
    /\ slot' = [slot EXCEPT ![i] = FilterBody(selfRows[i])]
    /\ fin' = fin \cup {i}
    /\ order' = Append(order, i)
    /\ clones' = clones + FilterClones(selfRows[i])
    /\ UNCHANGED <<inputs, growVars, dynVars, tokVars, gatherVars, scanVars, phase, out, prev>>

NextFilter ==
    \/ \E i \in 1..Len(selfRows) : Test(i)
    \/ Return

SpecFilter == InitFilter /\ [][NextFilter]_vars

----------------------------------------------------------------------------
\* transform, and select and mutate through it

\* A transform that writes the closure's result back into the row it read.
ApplyInPlace(i) ==
    /\ verb \in MapVerbs
    /\ phase = "run"
    /\ i \in (1..Len(selfRows)) \ fin
    /\ slot' = [slot EXCEPT ![i] = MapBody(selfRows[i])]
    /\ selfRows' = [selfRows EXCEPT ![i] = MapBody(selfRows[i])[1]]
    /\ fin' = fin \cup {i}
    /\ order' = Append(order, i)
    /\ clones' = clones + 1
    /\ UNCHANGED <<verb, otherRows, predicate, constructor, collect, update, cols, op,
                   growVars, dynVars, tokVars, gatherVars, scanVars, phase, out, prev>>

\* A worker clones row i and applies the closure to the clone.
Apply(i) ==
    /\ verb \in MapVerbs
    /\ phase = "run"
    /\ i \in (1..Len(selfRows)) \ fin
    /\ slot' = [slot EXCEPT ![i] = MapBody(selfRows[i])]
    /\ fin' = fin \cup {i}
    /\ order' = Append(order, i)
    /\ clones' = clones + 1
    /\ UNCHANGED <<inputs, growVars, dynVars, tokVars, gatherVars, scanVars, phase, out, prev>>

\* The caller keeps what select or mutate returned and calls transform on the same
\* store, with the same closure (for mutate: |mut row| { m(&mut row); row }).
ThenTransform ==
    /\ verb \in {"select", "lib_select", "mutate"}
    /\ phase = "done"
    /\ prev' = <<out>>
    /\ verb' = "transform"
    /\ fin' = {}
    /\ slot' = [i \in 1..Len(selfRows) |-> <<>>]
    /\ phase' = "run"
    /\ out' = <<>>
    /\ order' = <<>>
    /\ clones' = 0
    /\ UNCHANGED <<selfRows, otherRows, predicate, constructor, collect, update, cols,
                   op, growVars, dynVars, tokVars, gatherVars, scanVars>>

NextMap ==
    \/ \E i \in 1..Len(selfRows) : Apply(i)
    \/ \E i \in 1..Len(selfRows) : Test(i)
    \/ Return
    \/ ThenTransform

SpecMap == InitMap /\ [][NextMap]_vars

----------------------------------------------------------------------------
\* new, push, extend: a store grows.

\* DataFrame::new(): no rows; no verb is running.
InitStore ==
    /\ verb = "new"
    /\ selfRows = <<>>
    /\ otherRows = <<>>
    /\ predicate = "none"
    /\ constructor = <<>>
    /\ op = "none"
    /\ NoGatherInputs
    /\ IdleScan
    /\ IdleGather
    /\ fin = {}
    /\ slot = <<>>
    /\ phase = "done"
    /\ out = <<>>
    /\ prev = <<>>
    /\ order = <<>>
    /\ clones = 0
    /\ IdleGrow
    /\ IdleDyn
    /\ IdleTok

\* The rows a caller pushes or extends with: any row for a store made by new(),
\* two rows of the store's type for a store a verb has read.
NewRows ==
    CASE verb = "new" -> FRows
      [] verb \in {"lookup", "lib_lookup"} -> ARows
      [] verb = "gather" -> {r \in GRows : r.id = 1 /\ r.bar = r.baz}
      [] OTHER -> {r \in FRows : r.id = 1 /\ r.foo = 2}

\* A push that puts the record in front: self.rows.insert(0, r).
PushFront(r) ==
    /\ phase = "done"
    /\ pending = <<>>
    /\ Len(selfRows) < MaxRows
    /\ selfRows' = <<r>> \o selfRows
    /\ appended' = Append(appended, r)
    /\ UNCHANGED <<verb, otherRows, predicate, constructor, collect, update, cols, op,
                   workVars, dynVars, tokVars, gatherVars, scanVars, fin, slot, phase, out, prev,
                   pending>>

\* self.push(r): self.rows.push(r).
Push(r) ==
    /\ phase = "done"
    /\ pending = <<>>
    /\ Len(selfRows) < MaxRows
    /\ selfRows' = Append(selfRows, r)
    /\ appended' = Append(appended, r)
    /\ UNCHANGED <<verb, otherRows, predicate, constructor, collect, update, cols, op,
                   workVars, dynVars, tokVars, gatherVars, scanVars, fin, slot, phase, out, prev,
                   pending>>

\* self.extend(iter) is called: iter.into_iter() will yield the rows of src.
ExtendCall(src) ==
    /\ phase = "done"
    /\ pending = <<>>
    /\ src # <<>>
    /\ Len(selfRows) + Len(src) <= MaxRows
    /\ pending' = src
    /\ appended' = appended \o src
    /\ UNCHANGED <<inputs, workVars, dynVars, tokVars, gatherVars, scanVars, fin, slot, phase,
                   out, prev>>

\* One turn of `for item in iter.into_iter() { self.rows.push(item); }`.
ExtendStep ==
    /\ pending # <<>>
    /\ selfRows' = Append(selfRows, Head(pending))
    /\ pending' = Tail(pending)
    /\ UNCHANGED <<verb, otherRows, predicate, constructor, collect, update, cols, op,
                   workVars, dynVars, tokVars, gatherVars, scanVars, fin, slot, phase, out, prev,
                   appended>>

NextStore ==
    \/ \E r \in NewRows : Push(r)
    \/ \E src \in SeqUpTo(NewRows, MaxRows - Len(selfRows)) : ExtendCall(src)
    \/ ExtendStep

SpecStore == InitStore /\ [][NextStore]_vars

----------------------------------------------------------------------------
\* gather: the two nested for loops, one step per iteration.

\* `let mut new_record = record.clone(); ...; new_records.push(new_record)` with the
\* record of the row before left in place of the clone.
GatherPairCarry ==
    /\ verb = "gather"
    /\ phase = "run"
    /\ fields # <<>>
    /\ LET first == Len(fields) = Len(Collect_(selfRows[gi]))
           new_record == IF first THEN selfRows[gi] ELSE new_records[Len(new_records)]
           string == to_string(Head(fields)[1])
           value == Head(fields)[2]
       IN new_records' = Append(new_records, Update_(new_record, string, value))
    /\ fields' = Tail(fields)
    /\ UNCHANGED <<inputs, workVars, growVars, dynVars, tokVars, scanVars, gi, fin, slot, phase, out, prev>>

\* The body of the inner loop, for the next pair `collected` of the iterator.
GatherPair ==
    /\ verb = "gather"
    /\ phase = "run"
    /\ fields # <<>>
    /\ LET new_record == selfRows[gi]
           string == to_string(Head(fields)[1])
           value == Head(fields)[2]
       IN new_records' = Append(new_records, Update_(new_record, string, value))
    /\ fields' = Tail(fields)
    /\ UNCHANGED <<inputs, workVars, growVars, dynVars, tokVars, scanVars, gi, fin, slot, phase, out, prev>>

\* The outer loop with a record that yields no pair passed through unchanged.
NextRecordPassThrough ==
    /\ verb = "gather"
    /\ phase = "run"
    /\ fields = <<>>
    /\ gi < Len(selfRows)
    /\ gi' = gi + 1
    /\ fields' = Collect_(selfRows[gi + 1])
    /\ new_records' = IF Collect_(selfRows[gi + 1]) = <<>>
                      THEN Append(new_records, selfRows[gi + 1]) ELSE new_records
    /\ UNCHANGED <<inputs, workVars, growVars, dynVars, tokVars, scanVars, fin, slot, phase, out, prev>>

\* The inner iterator is exhausted (or the loop starts): the outer loop takes the
\* next record and calls collect(record.clone()).
NextRecord ==
    /\ verb = "gather"
    /\ phase = "run"
    /\ fields = <<>>
    /\ gi < Len(selfRows)
    /\ gi' = gi + 1
    /\ fields' = Collect_(selfRows[gi + 1])
    /\ UNCHANGED <<inputs, workVars, growVars, dynVars, tokVars, scanVars, new_records, fin, slot, phase, out, prev>>

\* Both loops are over: DataFrame { rows: new_records }.
GatherReturn ==
    /\ verb = "gather"
    /\ phase = "run"
    /\ fields = <<>>
    /\ gi = Len(selfRows)
    /\ out' = new_records
    /\ phase' = "done"
    /\ UNCHANGED <<inputs, workVars, growVars, dynVars, tokVars, gatherVars, scanVars, fin, slot, prev>>

NextGather ==
    \/ NextRecord
    \/ GatherPair
    \/ GatherReturn

SpecGather == InitGather /\ [][NextGather]_vars

----------------------------------------------------------------------------
\* The column-store prototype (dynamic/mod.rs): a frame is a map from column names
\* to columns, and a row count.  A column is its variant and its Vec.  Each method
\* runs its check, then its loops, one key per step; a HashMap is iterated in some
\* order, fixed when the loop starts.

MaxNrow == 1

MaxArg == 2

Names == {"x", "y"}

Variants == {"Float", "Factor"}

NoColumns == <<>>

\* Default::default(): no columns, nrow 0.
DefaultFrame == [columns |-> NoColumns, nrow |-> 0]

\* The frames with n rows whose columns hold n times the value v.
FramesOf(v, n) ==
    {[columns |-> [k \in K |-> [variant |-> t[k], data |-> [i \in 1..n |-> v]]],
      nrow |-> n] : <<K, t>> \in {<<K, t>> \in (SUBSET Names) \X [Names -> Variants] :
                                     \A k \in Names \ K : t[k] = "Float"}}

Frames(v) == UNION {FramesOf(v, n) : n \in 0..MaxNrow}

Keys(df) == DOMAIN df.columns

\* HashMap::insert(k, c) and HashMap::remove(k) on the map cs.
Insert(cs, k, c) == [x \in DOMAIN cs \cup {k} |-> IF x = k THEN c ELSE cs[x]]

Remove(cs, k) == [x \in DOMAIN cs \ {k} |-> cs[x]]

\* The orders a HashMap with the keys S may be iterated in, each key marked with
\* the frame src it comes from.
Orders(src, S) ==
    {[i \in 1..Cardinality(S) |-> <<src, o[i]>>] :
        o \in {o \in [1..Cardinality(S) -> S] :
                  \A i, j \in 1..Cardinality(S) : i # j => o[i] # o[j]}}

\* The slice `columns`, in its own order.
Listed(cs) == [i \in 1..Len(cs) |-> <<"self", cs[i]>>]

FrameOf(src) == IF src = "self" THEN dfSelf ELSE dfOther

CbindCalls == {"cbind", "cbind_mut"}

RbindCalls == {"rbind", "rbind_mut"}

SelectCalls == {"select", "select_mut"}

\* rbind_ck_base(a, b) at the key k of a: the key is missing in b, or the two
\* columns are of different variants.
RbindCkBaseFails(a, b, k) ==
    \/ k \notin Keys(b)
    \/ a.columns[k].variant # b.columns[k].variant

\* The check of the running method finds fault with the key k of the frame src.
CkFails(src, k) ==
    CASE dfCall \in CbindCalls -> k \in Keys(dfSelf)
      [] dfCall \in RbindCalls ->
             IF src = "self" THEN RbindCkBaseFails(dfSelf, dfOther, k)
             ELSE RbindCkBaseFails(dfOther, dfSelf, k)
      [] dfCall \in SelectCalls -> k \notin Keys(dfSelf)

\* v.extend(o.iter()): the column a with the elements of b behind its own.
Extended(a, b) == [variant |-> a.variant, data |-> a.data \o b.data]

\* The match of rbind / rbind_mut falls into its `_ => panic!` arm (or the index
\* other.columns[key] panics) at the key k.
StepPanics(k) ==
    /\ dfCall \in RbindCalls
    /\ RbindCkBaseFails(dfSelf, dfOther, k)

\* `let mut result = ...` of the methods that build a new frame.
InitialResult ==
    CASE dfCall = "cbind" -> <<[columns |-> NoColumns, nrow |-> dfSelf.nrow]>>
      [] dfCall = "rbind" -> <<[columns |-> NoColumns, nrow |-> dfSelf.nrow + dfOther.nrow]>>
      [] dfCall = "select" -> <<DefaultFrame>>
      [] OTHER -> <<>>

\* The iterations of the method's loops after its check.
ApplyLoop ==
    CASE dfCall = "cbind" ->
             {a \o b : a \in Orders("self", Keys(dfSelf)),
                       b \in Orders("other", Keys(dfOther))}
      [] dfCall = "cbind_mut" -> Orders("other", Keys(dfOther))
      [] dfCall \in RbindCalls -> Orders("self", Keys(dfSelf))
      [] dfCall \in SelectCalls -> {Listed(dfArg)}

\* `result` after one iteration at the key k of src.
StepResult(src, k) ==
    CASE dfCall = "cbind" ->
             <<[dfResult[1] EXCEPT !.columns = Insert(@, k, FrameOf(src).columns[k])]>>
      [] dfCall = "rbind" ->
             <<[dfResult[1] EXCEPT !.columns =
                    Insert(@, k, Extended(dfSelf.columns[k], dfOther.columns[k]))]>>
      [] dfCall = "select" ->
             <<[dfResult[1] EXCEPT !.columns = Insert(@, k, dfSelf.columns[k])]>>
      [] OTHER -> dfResult

\* `self` after one iteration at the key k of src.
StepSelf(src, k) ==
    CASE dfCall = "cbind_mut" ->
             [dfSelf EXCEPT !.columns = Insert(@, k, dfOther.columns[k])]
      [] dfCall = "rbind_mut" ->
             [dfSelf EXCEPT !.columns[k] = Extended(@, dfOther.columns[k])]
      [] dfCall = "select_mut" -> [dfSelf EXCEPT !.columns = Remove(@, k)]
      [] OTHER -> dfSelf

rowVars == <<inputs, workVars, growVars, gatherVars, scanVars, fin, slot, phase, out,
             prev, tokVars>>

\* A method of the column store is called on self (and other, or columns).
InitDyn ==
    /\ verb = "dynamic"
    /\ selfRows = <<>>
    /\ otherRows = <<>>
    /\ predicate = "none"
    /\ constructor = <<>>
    /\ op = "none"
    /\ NoGatherInputs
    /\ IdleScan
    /\ IdleGather
    /\ fin = {}
    /\ slot = <<>>
    /\ phase = "done"
    /\ out = <<>>
    /\ prev = <<>>
    /\ order = <<>>
    /\ clones = 0
    /\ IdleGrow
    /\ IdleTok
    /\ dfCall \in CbindCalls \cup RbindCalls \cup SelectCalls
    /\ dfSelf \in Frames(1)
    /\ dfOther \in IF dfCall \in SelectCalls THEN {DefaultFrame} ELSE Frames(2)
    /\ dfArg \in IF dfCall \in SelectCalls THEN SeqUpTo(Names, MaxArg) ELSE {<<>>}
    /\ dfPc = "call"
    /\ dfTodo = <<>>
    /\ dfResult = <<>>
    /\ dfSelf0 = dfSelf

\* The check starts: cbind_ck compares the row counts, and every check enters its
\* (first) for loop.
CkEnter ==
    /\ dfPc = "call"
    /\ IF dfCall \in CbindCalls /\ dfSelf.nrow # dfOther.nrow
       THEN dfPc' = "err" /\ dfTodo' = <<>>
       ELSE /\ dfPc' = "ck"
            /\ dfTodo' \in CASE dfCall \in CbindCalls -> Orders("other", Keys(dfOther))
                            [] dfCall \in RbindCalls -> Orders("self", Keys(dfSelf))
                            [] dfCall \in SelectCalls -> {Listed(dfArg)}
    /\ UNCHANGED <<dfSelf, dfOther, dfCall, dfArg, dfResult, dfSelf0, rowVars>>

\* A check loop that at once does the method's work on each key it finds no fault
\* with: cbind_mut inserts the column, rbind_mut extends it, select_mut removes it.
CkKeyInserting ==
    /\ dfPc \in {"ck", "ck2"}
    /\ dfTodo # <<>>
    /\ IF CkFails(Head(dfTodo)[1], Head(dfTodo)[2])
       THEN dfPc' = "err" /\ dfTodo' = <<>> /\ dfSelf' = dfSelf
       ELSE /\ dfPc' = dfPc
            /\ dfTodo' = Tail(dfTodo)
            /\ dfSelf' = StepSelf(Head(dfTodo)[1], Head(dfTodo)[2])
    /\ UNCHANGED <<dfOther, dfCall, dfArg, dfResult, dfSelf0, rowVars>>

\* One iteration of the loop of cbind_ck, rbind_ck_base or select_ck: return the
\* error, or go on.
CkKey ==
    /\ dfPc \in {"ck", "ck2"}
    /\ dfTodo # <<>>
    /\ IF CkFails(Head(dfTodo)[1], Head(dfTodo)[2])
       THEN dfPc' = "err" /\ dfTodo' = <<>>
       ELSE dfPc' = dfPc /\ dfTodo' = Tail(dfTodo)
    /\ UNCHANGED <<dfSelf, dfOther, dfCall, dfArg, dfResult, dfSelf0, rowVars>>

\* An rbind_ck that leaves out its second call, rbind_ck_base(other, self).
CkSecondSkipped ==
    /\ dfPc = "ck"
    /\ dfCall \in RbindCalls
    /\ dfTodo = <<>>
    /\ dfPc' = "ck2"
    /\ dfTodo' = <<>>
    /\ UNCHANGED <<dfSelf, dfOther, dfCall, dfArg, dfResult, dfSelf0, rowVars>>

\* rbind_ck: rbind_ck_base(self, other) returned Ok; rbind_ck_base(other, self).
CkSecond ==
    /\ dfPc = "ck"
    /\ dfCall \in RbindCalls
    /\ dfTodo = <<>>
    /\ dfPc' = "ck2"
    /\ dfTodo' \in Orders("other", Keys(dfOther))
    /\ UNCHANGED <<dfSelf, dfOther, dfCall, dfArg, dfResult, dfSelf0, rowVars>>

\* The check returned Ok(()) (rbind_ck: after its assert!): the method makes its
\* `result`, if it builds one, and enters its loops.
CkDone ==
    /\ dfTodo = <<>>
    /\ \/ dfPc = "ck" /\ dfCall \notin RbindCalls
       \/ dfPc = "ck2"
    /\ IF dfCall \in RbindCalls
          /\ Cardinality(Keys(dfSelf)) # Cardinality(Keys(dfOther))
       THEN dfPc' = "panic" /\ UNCHANGED <<dfTodo, dfResult>>
       ELSE /\ dfPc' = "apply"
            /\ dfTodo' \in ApplyLoop
            /\ dfResult' = InitialResult
    /\ UNCHANGED <<dfSelf, dfOther, dfCall, dfArg, dfSelf0, rowVars>>

\* One iteration of a loop of the method's body.
ApplyStep ==
    /\ dfPc = "apply"
    /\ dfTodo # <<>>
    /\ IF StepPanics(Head(dfTodo)[2])
       THEN dfPc' = "panic" /\ UNCHANGED <<dfTodo, dfSelf, dfResult>>
       ELSE /\ dfPc' = dfPc
            /\ dfTodo' = Tail(dfTodo)
            /\ dfSelf' = StepSelf(Head(dfTodo)[1], Head(dfTodo)[2])
            /\ dfResult' = StepResult(Head(dfTodo)[1], Head(dfTodo)[2])
    /\ UNCHANGED <<dfOther, dfCall, dfArg, dfSelf0, rowVars>>

\* An rbind_mut that forgets `self.nrow += other.nrow`.
ApplyDoneNrowKept ==
    /\ dfPc = "apply"
    /\ dfTodo = <<>>
    /\ dfPc' = "ok"
    /\ dfResult' = IF dfCall = "select"
                   THEN <<[dfResult[1] EXCEPT !.nrow = dfSelf.nrow]>> ELSE dfResult
    /\ UNCHANGED <<dfSelf, dfOther, dfCall, dfArg, dfTodo, dfSelf0, rowVars>>

\* The loops are over: `self.nrow += other.nrow` (rbind_mut), `result.nrow =
\* self.nrow` (select), and Ok(result) or Ok(self).
ApplyDone ==
    /\ dfPc = "apply"
    /\ dfTodo = <<>>
    /\ dfPc' = "ok"
    /\ dfSelf' = IF dfCall = "rbind_mut"
                 THEN [dfSelf EXCEPT !.nrow = @ + dfOther.nrow] ELSE dfSelf
    /\ dfResult' = IF dfCall = "select"
                   THEN <<[dfResult[1] EXCEPT !.nrow = dfSelf.nrow]>> ELSE dfResult
    /\ UNCHANGED <<dfOther, dfCall, dfArg, dfTodo, dfSelf0, rowVars>>

\* The method returned Ok: the caller calls a next method, on self or on the frame
\* just returned, with the same other.  Frames grow no longer than 2 * MaxNrow rows.
CallNext ==
    /\ dfPc = "ok"
    /\ dfSelf' \in {dfSelf} \cup {dfResult[i] : i \in 1..Len(dfResult)}
    /\ dfCall' \in CbindCalls \cup RbindCalls \cup SelectCalls
    /\ dfCall' \in RbindCalls => dfSelf'.nrow + dfOther.nrow <= 2 * MaxNrow
    /\ dfArg' \in IF dfCall' \in SelectCalls THEN SeqUpTo(Names, MaxArg) ELSE {<<>>}
    /\ dfSelf0' = dfSelf'
    /\ dfPc' = "call"
    /\ dfTodo' = <<>>
    /\ dfResult' = <<>>
    /\ UNCHANGED <<dfOther, rowVars>>

NextDyn ==
    \/ CkEnter
    \/ CkKey
    \/ CkSecond
    \/ CkDone
    \/ ApplyStep
    \/ ApplyDone
    \/ CallNext

SpecDyn == InitDyn /\ [][NextDyn]_vars

----------------------------------------------------------------------------
\* The staged expression token (dynamic/df_token_copy.rs): test(f) hands the
\* closure f a fresh df, and f indexes and adds.  Rust evaluates the operands of
\* `+` left to right and then calls add, so a closure is a sequence of operations:
\* d[c], e[c] on the operand just evaluated, `;` dropping an operand, and +.

MaxOps == 5

ColumnNames == {"a", "b", "c", "x", "y"}

\* Item::OwnColumn(c) and Item::Add.
OwnColumn(c) == <<"OwnColumn", c>>

AddItem == <<"Add">>

\* df::new(): both Vecs empty.
NewToken == [stack |-> <<>>, stage |-> <<>>]

\* index(): self.stage.borrow_mut().push(Item::OwnColumn(index)) on the df at r.
Staged(heap, r, c) == [heap EXCEPT ![r].stage = Append(@, OwnColumn(c))]

\* stage.pop().unwrap() twice: the first finds the stage empty, or the second.
AddPanics(t) == Len(t.stage) < 2

\* An add that moves the whole stage onto the stack, oldest first.
AddedDraining(t) == [stack |-> t.stack \o t.stage \o <<AddItem>>, stage |-> <<>>]

\* add() past its unwraps: `new` with the last two staged items popped onto its
\* stack, Item::Add behind them, and its stage cleared.
Added(t) ==
    [stack |-> t.stack \o <<t.stage[Len(t.stage)], t.stage[Len(t.stage) - 1], AddItem>>,
     stage |-> <<>>]

\* test(f): f is called with df::new().
InitToken ==
    /\ verb = "token"
    /\ selfRows = <<>>
    /\ otherRows = <<>>
    /\ predicate = "none"
    /\ constructor = <<>>
    /\ op = "none"
    /\ NoGatherInputs
    /\ IdleScan
    /\ IdleGather
    /\ fin = {}
    /\ slot = <<>>
    /\ phase = "done"
    /\ out = <<>>
    /\ prev = <<>>
    /\ order = <<>>
    /\ clones = 0
    /\ IdleGrow
    /\ IdleDyn
    /\ tkOps = <<>>
    /\ tkHeap = <<NewToken>>
    /\ tkRefs = <<>>
    /\ tkPc = "run"

tokRest == <<inputs, workVars, growVars, gatherVars, scanVars, fin, slot, phase, out,
             prev, dynVars>>

\* &d[c]: the column is staged on d, and the operand is d itself.
IndexD(c) ==
    /\ tkPc = "run"
    /\ Len(tkOps) < MaxOps
    /\ tkHeap' = Staged(tkHeap, 1, c)
    /\ tkRefs' = Append(tkRefs, 1)
    /\ tkOps' = Append(tkOps, <<"index_d", c>>)
    /\ UNCHANGED <<tkPc, tokRest>>

\* &e[c], e the operand just evaluated: the column is staged on it.
IndexTop(c) ==
    /\ tkPc = "run"
    /\ Len(tkOps) < MaxOps
    /\ tkRefs # <<>>
    /\ tkHeap' = Staged(tkHeap, tkRefs[Len(tkRefs)], c)
    /\ tkOps' = Append(tkOps, <<"index_top", c>>)
    /\ UNCHANGED <<tkRefs, tkPc, tokRest>>

\* `e;`: the operand is not used.
Drop ==
    /\ tkPc = "run"
    /\ Len(tkOps) < MaxOps
    /\ tkRefs # <<>>
    /\ tkRefs' = SubSeq(tkRefs, 1, Len(tkRefs) - 1)
    /\ tkOps' = Append(tkOps, <<"drop">>)
    /\ UNCHANGED <<tkHeap, tkPc, tokRest>>

\* lhs + rhs on the two operands evaluated last: `new` is a clone of lhs, and rhs
\* is not looked at.  The result is a new df, the operand of what follows.
AddStep ==
    /\ tkPc = "run"
    /\ Len(tkOps) < MaxOps
    /\ Len(tkRefs) >= 2
    /\ tkOps' = Append(tkOps, <<"add">>)
    /\ LET new == tkHeap[tkRefs[Len(tkRefs) - 1]]
       IN IF AddPanics(new)
          THEN tkPc' = "panic" /\ UNCHANGED <<tkHeap, tkRefs>>
          ELSE /\ tkHeap' = Append(tkHeap, Added(new))
               /\ tkRefs' = Append(SubSeq(tkRefs, 1, Len(tkRefs) - 2), Len(tkHeap) + 1)
               /\ tkPc' = tkPc
    /\ UNCHANGED tokRest

\* The closure returns its last operand, and test prints it.
TokenReturn ==
    /\ tkPc = "run"
    /\ Len(tkRefs) = 1
    /\ tkPc' = "done"
    /\ UNCHANGED <<tkOps, tkHeap, tkRefs, tokRest>>

NextToken ==
    \/ \E c \in ColumnNames : IndexD(c)
    \/ \E c \in ColumnNames : IndexTop(c)
    \/ Drop
    \/ AddStep
    \/ TokenReturn

SpecToken == InitToken /\ [][NextToken]_vars

----------------------------------------------------------------------------
\* Any verb of the row store, and the caller growing the source store afterwards.

InitVerbs == InitLookup \/ InitMap \/ InitGather

NextVerbs ==
    \/ \E i \in 1..Len(Outer) : Begin(i)
    \/ \E j \in 1..Len(Inner) : Probe(j)
    \/ Emit
    \/ \E i \in 1..Len(selfRows) : Apply(i)
    \/ \E i \in 1..Len(selfRows) : Test(i)
    \/ Return
    \/ NextRecord
    \/ GatherPair
    \/ GatherReturn
    \/ \E r \in NewRows : Push(r)
    \/ \E src \in SeqUpTo(NewRows, MaxRows - Len(selfRows)) : ExtendCall(src)
    \/ ExtendStep

SpecVerbs == InitVerbs /\ [][NextVerbs]_vars

----------------------------------------------------------------------------
\* What the claims speak of, stated on the inputs alone.

Done == phase = "done"

Min(S) == CHOOSE j \in S : \A k \in S : j <= k

\* The positions of other whose row satisfies predicate(s, o).
Matches(s) == {j \in 1..Len(otherRows) : UserPredicate(s, otherRows[j])}

\* The positions of self whose row has a match in other.
Matched == {i \in 1..Len(selfRows) : Matches(selfRows[i]) # {}}

\* combine(s, o) for the first o of other that matches s.
Combined(s) == UserTransform(s, otherRows[Min(Matches(s))])

\* How many members of K lie at or before i.
Rank(K, i) == Cardinality({k \in K : k <= i})

\* C1: lookup without a default constructor returns, for the self rows that have a
\* match and in their order in self, combine(s, o) with o the first matching row of
\* other; a self row without a match contributes nothing.
C1_LookupNoDefault ==
    (verb = "lookup" /\ constructor = <<>> /\ Done) =>
        /\ Len(out) = Cardinality(Matched)
        /\ \A i \in Matched : out[Rank(Matched, i)] = Combined(selfRows[i])

\* The scenario of the specification: A joined with B on id, no default.
C1_Witness ==
    /\ verb = "lookup" /\ constructor = <<>> /\ Done
    /\ predicate = "eq_id"
    /\ selfRows = <<[id |-> 1, v |-> 10], [id |-> 2, v |-> 20]>>
    /\ otherRows = <<[id |-> 2, w |-> 200], [id |-> 3, w |-> 300]>>
    /\ out = <<[id |-> 2, v |-> 20, w |-> 200]>>

\* C2: lookup with a default constructor returns exactly |self| rows, the i-th of
\* them combine(self[i], first match) if self[i] has a match and default() if not.
C2_LookupWithDefault ==
    (verb \in {"lookup", "lib_lookup"} /\ constructor # <<>> /\ Done) =>
        /\ Len(out) = Len(selfRows)
        /\ \A i \in 1..Len(selfRows) :
              out[i] = IF i \in Matched THEN Combined(selfRows[i]) ELSE DefaultRow

\* The scenario of the specification with a default: the unmatched first row is
\* replaced where it stands.
C2_Witness ==
    /\ verb = "lookup" /\ constructor # <<>> /\ Done
    /\ predicate = "eq_id"
    /\ selfRows = <<[id |-> 1, v |-> 10], [id |-> 2, v |-> 20]>>
    /\ otherRows = <<[id |-> 2, w |-> 200], [id |-> 3, w |-> 300]>>
    /\ out = <<DefaultRow, [id |-> 2, v |-> 20, w |-> 200]>>

\* C3: when find_first returns for a source row, its result is the matching row of
\* lowest index in the scanned store, whichever worker reported a match first.
C3_FirstMatchByIndex ==
    (cur # 0 /\ ScanOver) =>
        LET hits == {j \in 1..Len(Inner) : CallPredicate(Outer[cur], Inner[j])}
        IN best = IF hits = {} THEN 0 ELSE Min(hits)

\* A scan is over in which a worker reported a later match before the first one.
C3_Witness ==
    /\ verb = "lookup" /\ cur # 0 /\ ScanOver
    /\ firstHit > best /\ best # 0

\* C4 as stated: |lookup| <= |self|, with equality if and only if a default
\* constructor is supplied.
C4_LengthIffDefault ==
    (verb = "lookup" /\ Done) =>
        /\ Len(out) <= Len(selfRows)
        /\ (Len(out) = Len(selfRows)) <=> (constructor # <<>>)

\* C4, amended: |lookup| <= |self|; with a default constructor the length is |self|,
\* and without one it is the number of self rows that have a match, so that it
\* equals |self| if and only if a default is supplied or every self row has a match.
C4_LengthLaw ==
    (verb = "lookup" /\ Done) =>
        /\ Len(out) <= Len(selfRows)
        /\ constructor # <<>> => Len(out) = Len(selfRows)
        /\ constructor = <<>> => Len(out) = Cardinality(Matched)
        /\ (Len(out) = Len(selfRows)) <=>
              (constructor # <<>> \/ Matched = 1..Len(selfRows))

\* No default, every row of a non-empty self store has a match: nothing is dropped.
C4_Witness ==
    /\ verb = "lookup" /\ Done /\ constructor = <<>>
    /\ selfRows # <<>>
    /\ Matched = 1..Len(selfRows)
    /\ Len(out) = Len(selfRows)

\* C5: reverse_lookup(a, b, pred, comb, default) returns what lookup(b, a, |o,s|
\* pred(s,o), |o,s| comb(s,o), default) returns: one row per row o of b, in b's
\* order, comb(s, o) for the first row s of a with pred(s, o), default() if none.
C5_ReverseLookupDuality ==
    (verb = "reverse_lookup" /\ Done) =>
        /\ Len(out) = Len(otherRows)
        /\ \A i \in 1..Len(otherRows) :
              LET o == otherRows[i]
                  hits == {j \in 1..Len(selfRows) : UserPredicate(selfRows[j], o)}
              IN out[i] = IF hits = {} THEN DefaultRow
                          ELSE UserTransform(selfRows[Min(hits)], o)

\* A reverse lookup under the asymmetric predicate, with a row of other that has a
\* match in self and one that has none.
C5_Witness ==
    /\ verb = "reverse_lookup" /\ Done
    /\ predicate = "lt_id"
    /\ Len(otherRows) = 2
    /\ out[1] = DefaultRow
    /\ out[2] # DefaultRow

\* C6: a second lookup on the same self, other, predicate, combine and default
\* returns the rows the first returned, in the same order.
C6_LookupDeterminism ==
    (verb = "lookup" /\ Done /\ prev # <<>>) => out = prev[1]

\* Two runs are over, on inputs where a self row has two matches in other.
C6_Witness ==
    /\ verb = "lookup" /\ Done /\ prev # <<>>
    /\ \E i \in 1..Len(selfRows) : Cardinality(Matches(selfRows[i])) >= 2
    /\ out # <<>>

\* The pairs extract yields for the i-th input row.
Pairs(i) == Collect_(selfRows[i])

RECURSIVE PairsBefore(_)
\* How many pairs extract yields for the input rows before the i-th.
PairsBefore(i) == IF i <= 1 THEN 0 ELSE PairsBefore(i - 1) + Len(Pairs(i - 1))

\* C7: gather returns, for the input rows in their order and for the pairs of each
\* in the order extract yields them, update applied to a copy of the input row.
C7_GatherContent ==
    (verb = "gather" /\ Done) =>
        /\ Len(out) = PairsBefore(Len(selfRows) + 1)
        /\ \A i \in 1..Len(selfRows) : \A k \in 1..Len(Pairs(i)) :
              out[PairsBefore(i) + k] =
                  Update_(selfRows[i], Pairs(i)[k][1], Pairs(i)[k][2])

\* A row gave two pairs to an update that reads what it overwrites: the second
\* output row would differ had it started from the first.
C7_Witness ==
    /\ verb = "gather" /\ Done /\ update = "tally"
    /\ \E i \in 1..Len(selfRows) :
          /\ Len(Pairs(i)) = 2
          /\ Pairs(i)[1][2] # <<>>
          /\ out[PairsBefore(i) + 2] =
                 Update_(selfRows[i], Pairs(i)[2][1], Pairs(i)[2][2])
          /\ out[PairsBefore(i) + 2] #
                 Update_(out[PairsBefore(i) + 1], Pairs(i)[2][1], Pairs(i)[2][2])

\* C8: the number of rows gather returns is the sum, over the input rows, of the
\* number of pairs extract yields; once the loop has left row gi behind, the rows
\* pushed so far are the pairs of the rows up to gi.
C8_GatherLength ==
    /\ (verb = "gather" /\ Done) => Len(out) = PairsBefore(Len(selfRows) + 1)
    /\ (verb = "gather" /\ fields = <<>>) => Len(new_records) = PairsBefore(gi + 1)

\* A store whose first row yields no pair and whose second row yields some.
C8_Witness ==
    /\ verb = "gather" /\ Done
    /\ Len(selfRows) = 2
    /\ Pairs(1) = <<>>
    /\ Pairs(2) # <<>>
    /\ Len(out) = Len(Pairs(2))

\* The columns given to gather!, as a set.
ColSet == {cols[k] : k \in 1..Len(cols)}

\* C9: with the closures of gather!(key, val, c1..cn), the output row for input row
\* r and column c has every column c1..cn None, key Some(c), val the value of c in
\* r, and every other field as in r.
C9_GatherMacro ==
    (verb = "gather" /\ Done /\ collect = "macro" /\ update = "macro") =>
        /\ Len(out) = Len(cols) * Len(selfRows)
        /\ \A i \in 1..Len(selfRows) : \A k \in 1..Len(cols) :
              LET o == out[(i - 1) * Len(cols) + k]
                  r == selfRows[i]
              IN /\ \A c \in ColSet : o[c] = <<>>
                 /\ o.key = <<cols[k]>>
                 /\ o.val = r[cols[k]]
                 /\ \A f \in (DOMAIN r) \ (ColSet \cup {"key", "val"}) : o[f] = r[f]

\* The scenario of the specification: {id:1, bar:5, baz:6} with columns bar, baz.
C9_Witness ==
    /\ verb = "gather" /\ Done /\ collect = "macro" /\ update = "macro"
    /\ cols = <<"bar", "baz">>
    /\ selfRows = <<[id |-> 1, bar |-> <<5>>, baz |-> <<6>>, key |-> <<>>, val |-> <<>>]>>
    /\ out = <<[id |-> 1, bar |-> <<>>, baz |-> <<>>, key |-> <<"bar">>, val |-> <<5>>],
               [id |-> 1, bar |-> <<>>, baz |-> <<>>, key |-> <<"baz">>, val |-> <<6>>]>>

\* The positions of the store whose row satisfies p.
Kept == {i \in 1..Len(selfRows) : FilterPredicate(selfRows[i])}

\* C10: filter returns the rows that satisfy p, once per occurrence and in their
\* order in the store, and no other row.
C10_FilterSubsequence ==
    (verb = "filter" /\ Done) =>
        /\ Len(out) = Cardinality(Kept)
        /\ \A i \in Kept : out[Rank(Kept, i)] = selfRows[i]
        /\ \A n \in 1..Len(out) : FilterPredicate(out[n])

\* A store that holds a row twice, with a row that p rejects between the two.
C10_Witness ==
    /\ verb = "filter" /\ Done
    /\ Len(selfRows) = 3
    /\ selfRows[1] = selfRows[3]
    /\ ~FilterPredicate(selfRows[2])
    /\ out = <<selfRows[1], selfRows[3]>>

\* C11: transform returns a store as long as its input, whose i-th row is f applied
\* to (a copy of) the i-th input row.
C11_TransformRowwise ==
    (verb = "transform" /\ Done) =>
        /\ Len(out) = Len(selfRows)
        /\ \A i \in 1..Len(selfRows) : out[i] = UserOp(selfRows[i])

\* Two different rows, a closure that changes both, and the later row finished first.
C11_Witness ==
    /\ verb = "transform" /\ Done /\ prev = <<>>
    /\ op = "double_foo"
    /\ selfRows = <<[id |-> 1, foo |-> 2, name |-> "name"],
                    [id |-> 2, foo |-> 4, name |-> "nrme"]>>
    /\ order = <<2, 1>>
    /\ out = <<[id |-> 1, foo |-> 4, name |-> "name"],
               [id |-> 2, foo |-> 8, name |-> "nrme"]>>

\* What the closure of the verb makes of row i, stated on the caller's closures:
\* nothing or the row itself for filter, one new row for the others.
RowResult(i) ==
    CASE verb = "filter" ->
             IF FilterPredicate(selfRows[i]) THEN <<selfRows[i]>> ELSE <<>>
      [] verb = "mutate" -> <<Mutation(selfRows[i])>>
      [] OTHER -> <<UserOp(selfRows[i])>>

RECURSIVE InInputOrder(_)
\* The results of rows 1..n one after the other, by row index.
InInputOrder(n) == IF n = 0 THEN <<>> ELSE InInputOrder(n - 1) \o RowResult(n)

\* C12: for transform, filter, mutate and select the output follows the order of
\* the input whatever the order the parallel workers finish in: the results are
\* gathered by original index, never appended in completion order.
C12_OutputInInputOrder ==
    (verb \in MapVerbs \cup {"filter"} /\ Done) => out = InInputOrder(Len(selfRows))

\* The worker of row 2 finished before the worker of row 1, both rows are kept and
\* differ: appending in completion order would have swapped them.
C12_Witness ==
    /\ verb = "filter" /\ Done
    /\ order = <<2, 1>>
    /\ Len(out) = 2
    /\ out[1] # out[2]
    /\ out = selfRows

\* C13: mutate(store, m) returns the store transform returns for the closure
\* |row| { m(&mut row); row }: its i-th row is m applied to a copy of the i-th input
\* row.  The caller ran mutate, kept the result in prev, and ran that transform.
C13_MutateIsTransform ==
    (verb = "transform" /\ Done /\ prev # <<>> /\ op \in MutationKinds) =>
        /\ prev[1] = out
        /\ Len(prev[1]) = Len(selfRows)
        /\ \A i \in 1..Len(selfRows) : prev[1][i] = Mutation(selfRows[i])

\* mutate with |r| r.foo = 2.0 * r.foo on two rows, then the transform.
C13_Witness ==
    /\ verb = "transform" /\ Done /\ prev = <<out>>
    /\ op = "double_foo"
    /\ Len(selfRows) = 2
    /\ out[1].foo = 2 * selfRows[1].foo
    /\ out[2].foo = 2 * selfRows[2].foo
    /\ out[1].name = selfRows[1].name

\* C14: mutate with a mutation that changes nothing returns a store equal to its
\* input, row for row.
C14_MutateIdentity ==
    (verb = "mutate" /\ op = "noop" /\ Done) => out = selfRows

\* Two different rows, the second finished first.
C14_Witness ==
    /\ verb = "mutate" /\ op = "noop" /\ Done
    /\ Len(selfRows) = 2
    /\ selfRows[1] # selfRows[2]
    /\ order = <<2, 1>>
    /\ out = selfRows

\* C15: select(store, f) returns exactly what transform(store, f) returns.  The
\* caller ran select, kept the result in prev, and ran transform with the same f.
C15_SelectIsTransform ==
    (verb = "transform" /\ Done /\ prev # <<>> /\ op \in SelectionKinds) =>
        prev[1] = out

\* select with |r| New { id: r.id, name: r.name } on two different rows.
C15_Witness ==
    /\ verb = "transform" /\ Done /\ prev = <<out>>
    /\ op = "id_name"
    /\ Len(selfRows) = 2
    /\ out = <<[id |-> selfRows[1].id, name |-> selfRows[1].name],
               [id |-> selfRows[2].id, name |-> selfRows[2].name]>>
    /\ out[1] # out[2]

\* C16: a store made by new() is empty, and after any sequence of push and extend
\* calls its rows are exactly the pushed and extended rows, in call order (within
\* one extend: in the order of its source), and as many as were handed over.
C16_StoreGrowth ==
    (verb = "new" /\ pending = <<>>) =>
        /\ selfRows = appended
        /\ Len(selfRows) = Len(appended)
        /\ (appended = <<>> => selfRows = <<>>)

\* Three different rows were pushed or extended, and every call has returned.
C16_Witness ==
    /\ verb = "new" /\ pending = <<>>
    /\ selfRows = <<[id |-> 2, foo |-> 4, name |-> "nrme"],
                    [id |-> 1, foo |-> 2, name |-> "name"],
                    [id |-> 1, foo |-> 4, name |-> "name"]>>
    /\ appended = selfRows

\* C17: every verb (transform, filter, mutate, select, gather, lookup) leaves its
\* input stores as they were, and a later push or extend on the source does not
\* change the store a verb returned before.
C17_InputsUntouched ==
    [][/\ phase = "run" => (selfRows' = selfRows /\ otherRows' = otherRows)
       /\ (phase = "done" /\ selfRows' # selfRows) => out' = out]_vars

\* mutate doubled foo in two rows, and afterwards the caller pushed a third row on
\* the source: the source has its old rows and the new one, the result its two.
C17_Witness ==
    /\ verb = "mutate" /\ op = "double_foo" /\ Done
    /\ pending = <<>>
    /\ Len(out) = 2
    /\ Len(selfRows) = 3
    /\ out[1].foo = 2 * selfRows[1].foo
    /\ out[2].foo = 2 * selfRows[2].foo

\* C20: filter clones a row only after the predicate accepted it: at any moment the
\* clones made are as many as the rows tested so far that satisfy p (a failing row
\* is never cloned), and in the end as many as the rows of the output.
C20_CloneOnlyKept ==
    verb = "filter" =>
        /\ clones = Cardinality({i \in fin : FilterPredicate(selfRows[i])})
        /\ Done => (clones = Cardinality(Kept) /\ clones = Len(out))

\* Three rows, of which p accepts only the second: one clone.
C20_Witness ==
    /\ verb = "filter" /\ Done
    /\ Len(selfRows) = 3
    /\ ~FilterPredicate(selfRows[1])
    /\ FilterPredicate(selfRows[2])
    /\ ~FilterPredicate(selfRows[3])
    /\ clones = 1

\* C18: the column store's checks come before the work.  While cbind_ck, rbind_ck or
\* select_ck runs, and when it has returned an error, self's columns and nrow are
\* what they were at the call, and no result frame exists: cbind_mut, rbind_mut and
\* select_mut leave self untouched on error, cbind, rbind and select produce nothing.
C18_AllOrNothing ==
    (verb = "dynamic" /\ dfPc \in {"call", "ck", "ck2", "err"}) =>
        /\ dfSelf = dfSelf0
        /\ dfResult = <<>>

\* rbind_mut where other has one column more: rbind_ck_base(self, other) passes,
\* rbind_ck_base(other, self) returns the error; self has its one row still.
C18_Witness ==
    /\ verb = "dynamic" /\ dfCall = "rbind_mut" /\ dfPc = "err"
    /\ Keys(dfSelf0) = {"x"}
    /\ Keys(dfOther) = {"x", "y"}
    /\ dfSelf0.columns["x"].variant = dfOther.columns["x"].variant
    /\ dfSelf0.nrow = 1 /\ dfOther.nrow = 1
    /\ dfSelf = dfSelf0

\* C19: select_mut(columns), every named column being present, removes from self
\* the columns not named: afterwards self has exactly the named columns, the set
\* select(columns) returns, each as it was.
C19_SelectMutKeepsNamed ==
    (verb = "dynamic" /\ dfCall = "select_mut" /\ dfPc = "ok") =>
        /\ Keys(dfSelf) = {dfArg[i] : i \in 1..Len(dfArg)}
        /\ \A k \in Keys(dfSelf) : dfSelf.columns[k] = dfSelf0.columns[k]

\* C21: when both directional checks of rbind_ck have succeeded, self and other
\* have the same number of columns (the assert! holds), every column of self is in
\* other with the same variant, and so neither the assertion nor the
\* `panic!("invalid rbind")` arm of rbind / rbind_mut is ever reached.
C21_RbindNeverPanics ==
    verb = "dynamic" =>
        /\ dfPc # "panic"
        /\ (dfCall \in RbindCalls /\ dfPc \in {"apply", "ok"}) =>
               /\ Cardinality(Keys(dfSelf0)) = Cardinality(Keys(dfOther))
               /\ \A k \in Keys(dfSelf0) :
                      /\ k \in Keys(dfOther)
                      /\ dfSelf0.columns[k].variant = dfOther.columns[k].variant

\* rbind of two frames with the columns x (Float) and y (Factor), one row each:
\* both passes of the check succeeded and both columns were extended.
C21_Witness ==
    /\ verb = "dynamic" /\ dfCall = "rbind" /\ dfPc = "ok"
    /\ dfSelf0.nrow = 1 /\ dfOther.nrow = 1
    /\ Keys(dfSelf0) = {"x", "y"}
    /\ dfSelf0.columns["x"].variant = "Float"
    /\ dfSelf0.columns["y"].variant = "Factor"
    /\ dfResult[1].columns["x"].data = <<1, 2>>
    /\ dfResult[1].columns["y"].data = <<1, 2>>

\* Every column of the frame is as long as the frame's nrow says.
RowCountOk(df) == \A k \in Keys(df) : Len(df.columns[k].data) = df.nrow

\* C22: the input frames having columns of length nrow, after any sequence of
\* successful cbind, cbind_mut, rbind, rbind_mut, select and select_mut calls every
\* column of every resulting frame has the length of that frame's nrow; rbind and
\* rbind_mut give nrow = self.nrow + other.nrow, the others keep self.nrow.
C22_RowCountInvariant ==
    (verb = "dynamic" /\ dfPc = "ok") =>
        /\ RowCountOk(dfSelf)
        /\ RowCountOk(dfOther)
        /\ \A i \in 1..Len(dfResult) : RowCountOk(dfResult[i])
        /\ dfSelf.nrow = IF dfCall = "rbind_mut" THEN dfSelf0.nrow + dfOther.nrow
                         ELSE dfSelf0.nrow
        /\ \A i \in 1..Len(dfResult) :
               dfResult[i].nrow = IF dfCall = "rbind" THEN dfSelf0.nrow + dfOther.nrow
                                  ELSE dfSelf0.nrow

\* A select on a frame of two rows, which only an earlier successful rbind or
\* rbind_mut of two one-row frames can have made.
C22_Witness ==
    /\ verb = "dynamic" /\ dfCall = "select" /\ dfPc = "ok"
    /\ dfOther.nrow = 1
    /\ dfSelf0.nrow = 2
    /\ Keys(dfSelf0) = {"x", "y"}
    /\ dfArg = <<"x">>
    /\ Keys(dfResult[1]) = {"x"}
    /\ dfResult[1].columns["x"].data = <<1, 2>>
    /\ dfResult[1].nrow = 2

\* The df the closure has as its value: the operand evaluated last.
TokenResult == tkHeap[tkRefs[Len(tkRefs)]]

\* The closure |d| { &d[c]; &d[p] + &d[q] }.
ExtraneousThenAdd(c, p, q) ==
    <<<<"index_d", c>>, <<"drop">>, <<"index_d", p>>, <<"index_d", q>>, <<"add">>>>

\* C23: a column indexed and dropped before an addition does not leak into the
\* result: after `d[c]; d[p] + d[q]` on a fresh token (the source has c = "a",
\* p = "x", q = "y") the result's stack holds the two operands p and q and the Add
\* item and nothing else, c is not in it, and the result's stage is empty.
C23_ExtraneousIndexDropped ==
    (/\ verb = "token"
     /\ Len(tkOps) = 5
     /\ \A i \in {1, 3, 4} : Len(tkOps[i]) = 2
     /\ tkOps = ExtraneousThenAdd(tkOps[1][2], tkOps[3][2], tkOps[4][2])) =>
        LET c == tkOps[1][2]
            p == tkOps[3][2]
            q == tkOps[4][2]
        IN /\ tkPc # "panic"
           /\ Len(TokenResult.stack) = 3
           /\ {TokenResult.stack[1], TokenResult.stack[2]} = {OwnColumn(p), OwnColumn(q)}
           /\ TokenResult.stack[3] = AddItem
           /\ c \notin {p, q} =>
                  \A i \in 1..3 : TokenResult.stack[i] # OwnColumn(c)
           /\ TokenResult.stage = <<>>

\* main's second test, returned: d has staged a, x and y, the result holds y, x, Add.
C23_Witness ==
    /\ verb = "token" /\ tkPc = "done"
    /\ tkOps = ExtraneousThenAdd("a", "x", "y")
    /\ tkHeap[1].stage = <<OwnColumn("a"), OwnColumn("x"), OwnColumn("y")>>
    /\ TokenResult = [stack |-> <<OwnColumn("y"), OwnColumn("x"), AddItem>>,
                      stage |-> <<>>]

\* C24: every expression built from index and add operations on a fresh token
\* evaluates without panicking, the nested (d["a"] + d["b"]) + d["c"] included:
\* each add finds two staged operands to pop from the stage of its left operand.
C24_NoPanic ==
    verb = "token" => tkPc # "panic"

\* main's third test: the inner add returned a df with an empty stage, d["c"] was
\* staged on d, and the outer add, cloning the inner result, popped from nothing.
C24_NestedAddPanics ==
    /\ verb = "token" /\ tkPc = "panic"
    /\ tkOps = <<<<"index_d", "a">>, <<"index_d", "b">>, <<"add">>,
                 <<"index_d", "c">>, <<"add">>>>
    /\ tkRefs = <<2, 1>>
    /\ tkHeap[2] = [stack |-> <<OwnColumn("b"), OwnColumn("a"), AddItem>>, stage |-> <<>>]

====
